---- MODULE Spec2Model ----
(***************************************************************************)
(* runcached (Go): run a command and cache its output for a while.         *)
(*                                                                         *)
(* Every invocation of the tool is one OS process running RunCached on the *)
(* same command, hence on the same fingerprint: the same lock file         *)
(* (<hash>.pid), output blob (<hash>.data) and exit record (<hash>.exit).  *)
(* The model follows each invocation through its file-system calls, one    *)
(* action per call, so that every interleaving of concurrent invocations   *)
(* is explored.  Diagnostics on stderr and the verbose lines are left out  *)
(* (verbose is false unless -v is given).                                  *)
(***************************************************************************)
EXTENDS Integers, Sequences, FiniteSets, TLC

(* ------------------------------ bounds --------------------------------- *)
\* invocations of the command that are launched one after another (SpecSeq)
NumProcs == 3
\* invocations of the command that may be launched at any time, also together (Spec)
MaxConcurrent == 2
\* cache timeout handed to RunCached, in clock ticks
CacheTimeout == 1
\* most chunks of output the command writes in one run
OutLen == 1
\* most file-system calls that fail in one behaviour
MaxFaults == 1
\* most signals that end an invocation or its command in one behaviour
MaxInterrupts == 1
\* invocations launched one after another whose command may also write to
\* standard error and be ended by a signal (SpecChild)
ChildRuns == 2
\* most arguments of a command sequence that is fingerprinted (SpecHash)
MaxArgs == 2
\* most arguments of a list that is made into a shell line (SpecBash)
MaxBashArgs == 3
\* most pids of ended invocations that unrelated processes take over
MaxReused == 1

(* ------------------------- program constants --------------------------- *)
maxWaitPrevSec == 5

Procs == 1..NumProcs
\* exit statuses the command can end with
ExitCodes == {0, 3}

(* ------------------------------ text ----------------------------------- *)
\* A string is a sequence of one-character strings.
Digits == <<"0", "1", "2", "3", "4", "5", "6", "7", "8", "9">>

Space == " "
DQuote == "\""
SQuote == "'"
Backslash == "\\"

RECURSIVE ItoaNat(_)
ItoaNat(n) ==
    IF n < 10 THEN <<Digits[n + 1]>>
    ELSE Append(ItoaNat(n \div 10), Digits[(n % 10) + 1])

\* strconv.Itoa
Itoa(n) == IF n < 0 THEN <<"-">> \o ItoaNat(0 - n) ELSE ItoaNat(n)

DigitVal(c) == CHOOSE d \in 0..9 : Digits[d + 1] = c

IsDigit(c) == \E d \in 0..9 : Digits[d + 1] = c

RECURSIVE AtoiNat(_)
AtoiNat(s) ==
    IF Len(s) = 1 THEN DigitVal(s[1])
    ELSE 10 * AtoiNat(SubSeq(s, 1, Len(s) - 1)) + DigitVal(s[Len(s)])

\* strconv.Atoi: [err, val]; val is 0 when err
Atoi(s) ==
    LET signed == Len(s) > 0 /\ (s[1] = "-" \/ s[1] = "+")
        body == IF signed THEN SubSeq(s, 2, Len(s)) ELSE s
    IN  IF Len(body) = 0 \/ \E i \in 1..Len(body) : ~IsDigit(body[i])
        THEN [err |-> TRUE, val |-> 0]
        ELSE [err |-> FALSE,
              val |-> IF signed /\ s[1] = "-" THEN 0 - AtoiNat(body) ELSE AtoiNat(body)]

IsSpace(c) == c \in {" ", "\t", "\n", "\r"}

RECURSIVE TrimLeft(_)
TrimLeft(s) == IF Len(s) > 0 /\ IsSpace(s[1]) THEN TrimLeft(Tail(s)) ELSE s

RECURSIVE TrimRight(_)
TrimRight(s) ==
    IF Len(s) > 0 /\ IsSpace(s[Len(s)]) THEN TrimRight(SubSeq(s, 1, Len(s) - 1)) ELSE s

\* strings.TrimSpace
TrimSpace(s) == TrimRight(TrimLeft(s))

RECURSIVE Join(_, _)
\* strings.Join(args, sep)
Join(args, sep) ==
    IF Len(args) = 0 THEN <<>>
    ELSE IF Len(args) = 1 THEN args[1]
    ELSE args[1] \o sep \o Join(Tail(args), sep)

RECURSIVE ReplaceAll(_, _, _)
\* strings.Replace(s, old, new, -1) for a one-character old
ReplaceAll(s, old, new) ==
    IF Len(s) = 0 THEN <<>>
    ELSE (IF s[1] = old THEN new ELSE <<s[1]>>) \o ReplaceAll(Tail(s), old, new)

RECURSIVE ParseFrom(_, _, _, _, _, _)
ParseFrom(input, i, result, token, inQuotes, quoteChar) ==
    IF i > Len(input)
    THEN [err |-> inQuotes,
          tokens |-> IF inQuotes THEN <<>>
                     ELSE IF Len(token) > 0 THEN Append(result, token) ELSE result]
    ELSE LET r == input[i] IN
         IF inQuotes
         THEN ParseFrom(input, i + 1, result, Append(token, r), r # quoteChar, quoteChar)
         ELSE IF r = DQuote \/ r = SQuote
         THEN ParseFrom(input, i + 1, result, Append(token, r), TRUE, r)
         ELSE IF IsSpace(r)
         THEN ParseFrom(input, i + 1,
                        IF Len(token) > 0 THEN Append(result, token) ELSE result,
                        <<>>, FALSE, quoteChar)
         ELSE ParseFrom(input, i + 1, result, Append(token, r), FALSE, quoteChar)

\* CustomParse: [err, tokens]
CustomParse(input) == ParseFrom(input, 1, <<>>, <<>>, FALSE, "")

\* ConstructBashCommand: [fatal, line]; fatal is log.Fatal (the process exits 1)
ConstructBashCommand(args) ==
    LET parsed == CustomParse(Join(args, <<Space>>))
    IN  IF parsed.err THEN [fatal |-> TRUE, line |-> <<>>]
        ELSE [fatal |-> FALSE,
              line |-> ReplaceAll(Join(parsed.tokens, <<Space>>), DQuote,
                                  <<Backslash, DQuote>>)]

\* GenerateCommandHash: the digest of strings.Join(command, " "); the digest is
\* taken to be injective, so it is stood for by the bytes it digests
GenerateCommandHash(cmd) == Join(cmd, <<Space>>)

\* arguments, and the command sequences of up to MaxArgs of them, that are fingerprinted
HashArgs == {<<"a">>, <<"b">>, <<"a", Space>>, <<"a", Space, "b">>}
ArgLists == UNION {[1..n -> HashArgs] : n \in 1..MaxArgs}

\* arguments, and the lists of up to MaxBashArgs of them, that are made into a
\* shell line: plain words, a word with a backslash, a quoted argument with two
\* backslashes and a space inside, and a word with a quote that is never closed
BashArgs == { <<"l", "s">>, <<"-", "l">>, <<"a", Backslash, "b">>,
              <<DQuote, "f", Backslash, Backslash, Space, "s", DQuote>>,
              <<DQuote, "h">> }
BashArgLists == UNION {[1..n -> BashArgs] : n \in 1..MaxBashArgs}

\* the commands an invocation is given: one that parses, one with an unclosed quote
CmdEcho == << <<"e">>, <<"h">> >>
CmdUnclosed == << <<"e">>, <<DQuote, "h">> >>
Commands == {CmdEcho, CmdUnclosed}

(* ------------------------------ state ---------------------------------- *)
VARIABLES
    command,       \* the command every invocation is given
    pc,            \* where each invocation is
    alive,         \* whether the process of the invocation is running
    cacheOnError,  \* the cacheOnError argument of each invocation
    cacheOnAbort,  \* the cacheOnAbort argument of each invocation
    polls,         \* i of waitForPreviousCommand
    seenPid,       \* pid of waitForPreviousCommand
    rc,            \* returnCode of RunCached; the process's exit code once pc is "done"
    out,           \* what the invocation wrote to its standard output
    run,           \* the child process and the copying goroutine of ExecuteCommand
    pidFile,       \* the lock file
    outputCache,   \* the output blob
    exitFile,      \* the exit record
    execCount,     \* how many times the command was started
    faults,        \* file-system calls that failed so far
    interrupts,    \* invocations killed so far
    ageSeen,       \* history: the age of the blob when the invocation called IsValid
    ioFailed,      \* history: the invocations a file-system call of which failed
    reused,        \* pids of ended invocations that unrelated processes now have
    argsA,         \* a command sequence handed to GenerateCommandHash
    argsB,         \* another one
    hashA,         \* the fingerprint of argsA, once computed
    hashB,         \* the fingerprint of argsB, once computed
    bashArgs,      \* an argument list handed to ConstructBashCommand
    bashCalled,    \* whether ConstructBashCommand has been called on it
    bashOut        \* what the call gave

\* the variables of the fingerprint computation
hashVars == <<argsA, argsB, hashA, hashB>>

\* the variables of the invocations and of the cache directory
runVars == <<command, pc, alive, cacheOnError, cacheOnAbort, polls, seenPid, rc, out,
             run, pidFile, outputCache, exitFile, execCount, faults, interrupts,
             ageSeen, ioFailed, reused>>

\* the variables of the construction of the shell line
bashVars == <<bashArgs, bashCalled, bashOut>>

vars == <<runVars, hashVars, bashVars>>

\* ageSeen before IsValid is called, and when IsValid finds no blob
NotChecked == 0 - 2
NoBlob == 0 - 1

\* the k-th chunk the command writes in the run of invocation p
Chunk(p, k) == <<p, k>>
\* the k-th chunk the command writes to its standard error in that run
StderrChunk(p, k) == <<p, k, "stderr">>
\* "Error copying to writers: ..." printed by the copying goroutine
ErrLine == <<0, 0>>

\* the whole output of the run of invocation p, once its child has exited
RunOutput(p) == [k \in 1..run[p].emitted |-> Chunk(p, k)]

NoRun == [child |-> "none", emitted |-> 0, copied |-> 0, code |-> 0,
          closed |-> FALSE, copyDone |-> FALSE, errs |-> 0]

\* ExitError.ExitCode() of a child that a signal ended
Signaled == 0 - 1

AbsentFile == [exists |-> FALSE, data |-> <<>>, fds |-> {}]
AbsentCache == [exists |-> FALSE, data |-> <<>>, fds |-> {}, age |-> 0, by |-> 0]

\* no invocation has been launched and the cache directory is empty
InitRun ==
    /\ command \in Commands
    /\ pc = [p \in Procs |-> "idle"]
    /\ alive = [p \in Procs |-> FALSE]
    /\ cacheOnError = [p \in Procs |-> FALSE]
    /\ cacheOnAbort = [p \in Procs |-> FALSE]
    /\ polls = [p \in Procs |-> 0]
    /\ seenPid = [p \in Procs |-> 0]
    /\ rc = [p \in Procs |-> 0]
    /\ out = [p \in Procs |-> <<>>]
    /\ run = [p \in Procs |-> NoRun]
    /\ pidFile = AbsentFile
    /\ outputCache = AbsentCache
    /\ exitFile = AbsentFile
    /\ execCount = 0
    /\ faults = 0
    /\ interrupts = 0
    /\ ageSeen = [p \in Procs |-> NotChecked]
    /\ ioFailed = {}
    /\ reused = {}

Init ==
    /\ InitRun
    /\ argsA = <<>>
    /\ argsB = <<>>
    /\ hashA = <<>>
    /\ hashB = <<>>
    /\ bashArgs = <<>>
    /\ bashCalled = FALSE
    /\ bashOut = [fatal |-> FALSE, line |-> <<>>]

(* ----------------------------- helpers --------------------------------- *)
\* bytes written at offset 0 of a file that holds old
WriteAt0(old, new) ==
    IF Len(new) >= Len(old) THEN new ELSE new \o SubSeq(old, Len(new) + 1, Len(old))

\* a hole of zero bytes, left by a write beyond the end of a file
Hole == <<0, 0, 0>>

\* one chunk written at chunk offset k of a file that holds old
WriteChunkAt(old, k, c) ==
    [i \in 1..(IF Len(old) > k THEN Len(old) ELSE k + 1) |->
        IF i = k + 1 THEN c ELSE IF i <= Len(old) THEN old[i] ELSE Hole]

\* os.Create(path) by p: a new empty file, or the existing file truncated (same inode)
Created(file, p) ==
    [file EXCEPT !.exists = TRUE, !.data = <<>>,
                 !.fds = IF file.exists THEN file.fds \cup {p} ELSE {p}]

\* p closes its descriptor of the file (Close, or the kernel when the process ends)
Closed(file, p) == [file EXCEPT !.fds = file.fds \ {p}]

\* getPidFromFile: -1 when the file cannot be read or does not hold an integer
getPidFromFile(file) ==
    IF ~file.exists THEN 0 - 1
    ELSE LET parsed == Atoi(TrimSpace(file.data))
         IN  IF parsed.err THEN 0 - 1 ELSE parsed.val

\* isProcessRunning: signal 0 reaches a process, the invocation that wrote the pid
\* or whatever process has the pid now
isProcessRunning(pid) == pid \in Procs /\ (alive[pid] \/ pid \in reused)

\* readFileOrDefault(path, defaultValue)
readFileOrDefault(file, defaultValue) ==
    IF ~file.exists THEN defaultValue ELSE file.data

\* a variant that takes a blob as old as the timeout for expired
IsValid_Strict(cache) == cache.exists /\ cache.age < CacheTimeout

\* CommandCache.IsValid: the blob exists and its age is within the timeout
IsValid(cache) == cache.exists /\ cache.age <= CacheTimeout

\* CommandCache.Invalidate: os.Remove(cc.OutputCache)
Invalidate(cache) == AbsentCache

\* a variant that drops the entry of every failed run, whatever cacheOnError says
MustInvalidate_IgnoresFlag(returnCode, onError) == returnCode # 0

\* RunCached: whether the entry is invalidated after ExecuteCommand returned
MustInvalidate(returnCode, onError) == returnCode # 0 /\ ~onError

\* the invocation holds the guard: CreatePidFile returned the lock path and the
\* deferred os.Remove has not run
GuardedPcs == {"isvalid", "replay_send", "replay_exit", "exec_create", "exec_start",
               "exec_wait", "exec_wg", "exec_exit_write", "post_exec", "release"}

Holding(p) == pc[p] \in GuardedPcs

\* a file-system call of invocation p fails
Fail(p) ==
    /\ faults' = faults + 1
    /\ ioFailed' = ioFailed \cup {p}

\* the file-system call of this step succeeds
NoFail == UNCHANGED <<faults, ioFailed>>

\* the invocation moves on to label
Goto(p, label) ==
    /\ pc' = [pc EXCEPT ![p] = label]
    /\ UNCHANGED <<alive, cacheOnError, cacheOnAbort, polls, seenPid, rc>>

\* the process of invocation p exits with code; its local variables are gone (i
\* of a wait loop that ran out, and the arguments, stay as the record of the
\* invocation)
Exit(p, code) ==
    /\ pc' = [pc EXCEPT ![p] = "done"]
    /\ rc' = [rc EXCEPT ![p] = code % 256]
    /\ alive' = [alive EXCEPT ![p] = FALSE]
    /\ seenPid' = [seenPid EXCEPT ![p] = 0]
    /\ polls' = [polls EXCEPT ![p] = IF @ >= maxWaitPrevSec THEN @ ELSE 0]
    /\ UNCHANGED <<cacheOnError, cacheOnAbort>>

(* ------------------------------ launch --------------------------------- *)
\* main: the process starts, parses its flags and calls RunCached
LaunchWith(p, onError, onAbort) ==
    /\ pc[p] = "idle"
    /\ pc' = [pc EXCEPT ![p] = "wait_stat"]
    /\ alive' = [alive EXCEPT ![p] = TRUE]
    /\ cacheOnError' = [cacheOnError EXCEPT ![p] = onError]
    /\ cacheOnAbort' = [cacheOnAbort EXCEPT ![p] = onAbort]
    /\ UNCHANGED <<hashVars, bashVars, reused, command, polls, seenPid, rc, out,
                   run, pidFile, outputCache, exitFile, execCount, faults, ioFailed,
                   interrupts, ageSeen>>

\* an invocation without -a
Launch(p, onError) == LaunchWith(p, onError, FALSE)

\* the invocation is launched at any time, whatever the earlier ones are doing
\* (pids are given out in order)
Start(p, onError) ==
    /\ p <= MaxConcurrent
    /\ \A q \in 1..(p - 1) : pc[q] # "idle"
    /\ Launch(p, onError)

\* the invocation is launched after every earlier one has ended
StartAfter(p, onError) ==
    /\ \A q \in 1..(p - 1) : pc[q] \in {"done", "killed"}
    /\ Launch(p, onError)

(* ---------------- CreatePidFile / waitForPreviousCommand ---------------- *)
\* a variant that clears the lock away when the wait has run out
waitTimedOut_RemovesLock(p) ==
    /\ Exit(p, 2)
    /\ pidFile' = AbsentFile

\* the loop has run out: waitForPreviousCommand returns false, CreatePidFile
\* returns "" and RunCached returns 2; the lock stays as it is
waitTimedOut(p) ==
    /\ Exit(p, 2)
    /\ UNCHANGED pidFile

\* the loop test and os.Stat(pidFile)
waitStat(p) ==
    /\ pc[p] = "wait_stat"
    /\ IF polls[p] >= maxWaitPrevSec
       THEN waitTimedOut(p)
       ELSE /\ IF pidFile.exists
               THEN Goto(p, "wait_read")
               ELSE /\ pc' = [pc EXCEPT ![p] = "create"]
                    /\ polls' = [polls EXCEPT ![p] = 0]
                    /\ UNCHANGED <<alive, cacheOnError, cacheOnAbort, seenPid, rc>>
            /\ UNCHANGED pidFile
    /\ UNCHANGED <<hashVars, bashVars, reused, command, out, run, outputCache,
                   exitFile, execCount, faults, ioFailed, interrupts, ageSeen>>

\* pid := getPidFromFile(pidFile)
waitRead(p) ==
    /\ pc[p] = "wait_read"
    /\ seenPid' = [seenPid EXCEPT ![p] = getPidFromFile(pidFile)]
    /\ pc' = [pc EXCEPT ![p] =
                IF getPidFromFile(pidFile) = 0 - 1 THEN "wait_remove" ELSE "wait_probe"]
    /\ UNCHANGED <<hashVars, bashVars, reused, command, alive, cacheOnError,
                   cacheOnAbort, polls, rc, out, run, pidFile, outputCache,
                   exitFile, execCount, faults, ioFailed, interrupts, ageSeen>>

\* isProcessRunning(pid), then time.Sleep and i++ when it is
waitProbe(p) ==
    /\ pc[p] = "wait_probe"
    /\ IF isProcessRunning(seenPid[p])
       THEN /\ polls' = [polls EXCEPT ![p] = polls[p] + 1]
            /\ seenPid' = [seenPid EXCEPT ![p] = 0]
            /\ pc' = [pc EXCEPT ![p] = "wait_stat"]
       ELSE /\ pc' = [pc EXCEPT ![p] = "wait_remove"]
            /\ UNCHANGED <<polls, seenPid>>
    /\ UNCHANGED <<hashVars, bashVars, reused, command, alive, cacheOnError,
                   cacheOnAbort, rc, out, run, pidFile, outputCache, exitFile,
                   execCount, faults, ioFailed, interrupts, ageSeen>>

\* a variant that leaves the lock it takes for stale where it is
RemoveLock_Keeps(file) == file

\* what waitForPreviousCommand does to a lock it takes for stale or unreadable
RemoveLock(file) == AbsentFile

\* os.Remove(pidFile); return false: CreatePidFile returns "", RunCached returns 2
waitRemove(p) ==
    /\ pc[p] = "wait_remove"
    /\ pidFile' = RemoveLock(pidFile)
    /\ Exit(p, 2)
    /\ UNCHANGED <<hashVars, bashVars, reused, command, out, run, outputCache,
                   exitFile, execCount, faults, ioFailed, interrupts, ageSeen>>

\* os.Create(pidFile)
createPid(p) ==
    /\ pc[p] = "create"
    /\ \/ /\ pidFile' = Created(pidFile, p)
          /\ Goto(p, "write_pid")
          /\ NoFail
       \/ /\ faults < MaxFaults
          /\ Fail(p)
          /\ Exit(p, 2)
          /\ UNCHANGED pidFile
    /\ UNCHANGED <<hashVars, bashVars, reused, command, out, run, outputCache,
                   exitFile, execCount, interrupts, ageSeen>>

\* f.WriteString(strconv.Itoa(os.Getpid())) and the deferred f.Close()
writePid(p) ==
    /\ pc[p] = "write_pid"
    /\ \/ /\ pidFile' = IF p \in pidFile.fds
                        THEN Closed([pidFile EXCEPT !.data = WriteAt0(@, Itoa(p))], p)
                        ELSE pidFile
          /\ Goto(p, "isvalid")
          /\ NoFail
       \/ /\ faults < MaxFaults
          /\ Fail(p)
          /\ pidFile' = Closed(pidFile, p)
          /\ Exit(p, 2)
    /\ UNCHANGED <<hashVars, bashVars, reused, command, out, run, outputCache,
                   exitFile, execCount, interrupts, ageSeen>>

(* ------------------------------ RunCached ------------------------------ *)
\* cache.IsValid()
checkValid(p) ==
    /\ pc[p] = "isvalid"
    /\ Goto(p, IF IsValid(outputCache) THEN "replay_send" ELSE "exec_create")
    /\ ageSeen' = [ageSeen EXCEPT ![p] =
                     IF outputCache.exists THEN outputCache.age ELSE NoBlob]
    /\ UNCHANGED <<hashVars, bashVars, reused, command, out, run, pidFile,
                   outputCache, exitFile, execCount, faults, ioFailed, interrupts>>

\* sendTextToStdout(cache.OutputCache); its result is ignored
sendTextToStdout(p) ==
    /\ pc[p] = "replay_send"
    /\ out' = [out EXCEPT ![p] = IF outputCache.exists THEN @ \o outputCache.data ELSE @]
    /\ Goto(p, "replay_exit")
    /\ UNCHANGED <<hashVars, bashVars, reused, command, run, pidFile, outputCache,
                   exitFile, execCount, faults, ioFailed, interrupts, ageSeen>>

\* a variant that fails with 1 when the exit record is not an integer
ReplayCode_Strict(file) ==
    IF Atoi(readFileOrDefault(file, <<"0">>)).err THEN 1
    ELSE Atoi(readFileOrDefault(file, <<"0">>)).val

\* returnCode, _ := strconv.Atoi(readFileOrDefault(cache.ExitFile, "0"))
ReplayCode(file) == Atoi(readFileOrDefault(file, <<"0">>)).val

replayExit(p) ==
    /\ pc[p] = "replay_exit"
    /\ rc' = [rc EXCEPT ![p] = ReplayCode(exitFile)]
    /\ pc' = [pc EXCEPT ![p] = "release"]
    /\ UNCHANGED <<hashVars, bashVars, reused, command, alive, cacheOnError,
                   cacheOnAbort, polls, seenPid, out, run, pidFile, outputCache,
                   exitFile, execCount, faults, ioFailed, interrupts, ageSeen>>

\* the deferred os.Remove(pidFile), then RunCached returns and main exits
release(p) ==
    /\ pc[p] = "release"
    /\ pidFile' = AbsentFile
    /\ Exit(p, rc[p])
    /\ UNCHANGED <<hashVars, bashVars, reused, command, out, run, outputCache,
                   exitFile, execCount, faults, ioFailed, interrupts, ageSeen>>

(* ---------------------------- ExecuteCommand --------------------------- *)
\* ExecuteCommand returns code to RunCached
Return(p, code) ==
    /\ rc' = [rc EXCEPT ![p] = code]
    /\ pc' = [pc EXCEPT ![p] = "post_exec"]
    /\ UNCHANGED <<alive, cacheOnError, cacheOnAbort, polls, seenPid>>

\* ConstructBashCommand(command), which may log.Fatal, then os.Create(cache.OutputCache)
execCreate(p) ==
    /\ pc[p] = "exec_create"
    /\ IF ConstructBashCommand(command).fatal
       THEN /\ Exit(p, 1)
            /\ NoFail
            /\ UNCHANGED outputCache
       ELSE \/ /\ outputCache' = [Created(outputCache, p) EXCEPT !.age = 0, !.by = p]
               /\ Goto(p, "exec_start")
               /\ NoFail
            \/ /\ faults < MaxFaults
               /\ Fail(p)
               /\ Return(p, 1)
               /\ UNCHANGED outputCache
    /\ UNCHANGED <<hashVars, bashVars, reused, command, out, run, pidFile, exitFile,
                   execCount, interrupts, ageSeen>>

\* cmd.Start(); on success the child runs, the copying goroutine is started and
\* the caller goes on to cmd.Wait()
execStart(p) ==
    /\ pc[p] = "exec_start"
    /\ \/ /\ run' = [run EXCEPT ![p] = [NoRun EXCEPT !.child = "running"]]
          /\ execCount' = execCount + 1
          /\ Goto(p, "exec_wait")
          /\ NoFail
          /\ UNCHANGED outputCache
       \/ /\ faults < MaxFaults
          /\ Fail(p)
          /\ outputCache' = Closed(outputCache, p)
          /\ Return(p, 1)
          /\ UNCHANGED <<run, execCount>>
    /\ UNCHANGED <<hashVars, bashVars, reused, command, out, pidFile, exitFile,
                   interrupts, ageSeen>>

\* the child writes a chunk to its standard output, the pipe
childWrite(p) ==
    /\ run[p].child = "running"
    /\ run[p].emitted < OutLen
    /\ run' = [run EXCEPT ![p].emitted = @ + 1]
    /\ UNCHANGED <<hashVars, bashVars, reused, command, pc, alive, cacheOnError,
                   cacheOnAbort, polls, seenPid, rc, out, pidFile, outputCache,
                   exitFile, execCount, faults, ioFailed, interrupts, ageSeen>>

\* the child has written its output and exits with code
childExit(p, code) ==
    /\ run[p].child = "running"
    /\ run[p].emitted = OutLen
    /\ run' = [run EXCEPT ![p].child = "exited", ![p].code = code]
    /\ UNCHANGED <<hashVars, bashVars, reused, command, pc, alive, cacheOnError,
                   cacheOnAbort, polls, seenPid, rc, out, pidFile, outputCache,
                   exitFile, execCount, faults, ioFailed, interrupts, ageSeen>>

\* the goroutine is inside io.Copy(multiWriter, teeReader)
Copying(p) ==
    /\ pc[p] \in {"exec_wait", "exec_wg"}
    /\ ~run[p].copyDone

\* io.Copy moves a chunk from the pipe to os.Stdout and then to cacheFile
copyChunk(p) ==
    /\ Copying(p)
    /\ ~run[p].closed
    /\ run[p].copied < run[p].emitted
    /\ LET c == Chunk(p, run[p].copied + 1) IN
       \/ /\ out' = [out EXCEPT ![p] = Append(@, c)]
          /\ outputCache' =
                IF p \in outputCache.fds
                THEN [outputCache EXCEPT !.data = WriteChunkAt(@, run[p].copied, c),
                                         !.age = 0]
                ELSE outputCache
          /\ run' = [run EXCEPT ![p].copied = @ + 1]
          /\ NoFail
       \/ /\ faults < MaxFaults
          /\ Fail(p)
          /\ out' = [out EXCEPT ![p] = @ \o <<c, ErrLine>>]
          /\ run' = [run EXCEPT ![p].copyDone = TRUE]
          /\ UNCHANGED outputCache
    /\ UNCHANGED <<hashVars, bashVars, reused, command, pc, alive, cacheOnError,
                   cacheOnAbort, polls, seenPid, rc, pidFile, exitFile, execCount,
                   interrupts, ageSeen>>

\* io.Copy reads end of file: the child has exited and the pipe is drained
copyEOF(p) ==
    /\ Copying(p)
    /\ ~run[p].closed
    /\ run[p].child = "exited"
    /\ run[p].copied = run[p].emitted
    /\ run' = [run EXCEPT ![p].copyDone = TRUE]
    /\ UNCHANGED <<hashVars, bashVars, reused, command, pc, alive, cacheOnError,
                   cacheOnAbort, polls, seenPid, rc, out, pidFile, outputCache,
                   exitFile, execCount, faults, ioFailed, interrupts, ageSeen>>

\* io.Copy reads from the pipe that cmd.Wait has closed: the read fails, the
\* goroutine prints the error on standard output and what was left in the pipe is lost
copyClosed(p) ==
    /\ Copying(p)
    /\ run[p].closed
    /\ out' = [out EXCEPT ![p] = Append(@, ErrLine)]
    /\ run' = [run EXCEPT ![p].copyDone = TRUE]
    /\ UNCHANGED <<hashVars, bashVars, reused, command, pc, alive, cacheOnError,
                   cacheOnAbort, polls, seenPid, rc, pidFile, outputCache, exitFile,
                   execCount, faults, ioFailed, interrupts, ageSeen>>

\* cmd.Wait() returns once the child has exited, and closes the pipe
cmdWait(p) ==
    /\ pc[p] = "exec_wait"
    /\ run[p].child = "exited"
    /\ run' = [run EXCEPT ![p].closed = TRUE]
    /\ Goto(p, "exec_wg")
    /\ UNCHANGED <<hashVars, bashVars, reused, command, out, pidFile, outputCache,
                   exitFile, execCount, faults, ioFailed, interrupts, ageSeen>>

\* wg.Wait(); exit code 0: return 0; an ExitError: os.Create(cache.ExitFile)
execJoin(p) ==
    /\ pc[p] = "exec_wg"
    /\ run[p].copyDone
    /\ IF run[p].code = 0
       THEN /\ Return(p, 0)
            /\ outputCache' = Closed(outputCache, p)
            /\ NoFail
            /\ UNCHANGED exitFile
       ELSE \/ /\ exitFile' = Created(exitFile, p)
               /\ Goto(p, "exec_exit_write")
               /\ NoFail
               /\ UNCHANGED outputCache
            \/ /\ faults < MaxFaults
               /\ Fail(p)
               /\ Return(p, 1)
               /\ outputCache' = Closed(outputCache, p)
               /\ UNCHANGED exitFile
    /\ UNCHANGED <<hashVars, bashVars, reused, command, out, run, pidFile,
                   execCount, interrupts, ageSeen>>

\* exitFile.WriteString(strconv.Itoa(exitErr.ExitCode())); return exitErr.ExitCode()
execExitWrite(p) ==
    /\ pc[p] = "exec_exit_write"
    /\ \/ /\ exitFile' = Closed([exitFile EXCEPT !.data = WriteAt0(@, Itoa(run[p].code))], p)
          /\ Return(p, run[p].code)
          /\ NoFail
       \/ /\ faults < MaxFaults
          /\ Fail(p)
          /\ exitFile' = Closed(exitFile, p)
          /\ Return(p, 1)
    /\ outputCache' = Closed(outputCache, p)
    /\ UNCHANGED <<hashVars, bashVars, reused, command, out, run, pidFile,
                   execCount, interrupts, ageSeen>>

\* RunCached after ExecuteCommand: invalidate a failed result unless cacheOnError
postExec(p) ==
    /\ pc[p] = "post_exec"
    /\ outputCache' = IF MustInvalidate(rc[p], cacheOnError[p])
                      THEN Invalidate(outputCache) ELSE outputCache
    /\ Goto(p, "release")
    /\ UNCHANGED <<hashVars, bashVars, reused, command, out, run, pidFile, exitFile,
                   execCount, faults, ioFailed, interrupts, ageSeen>>

(* ----------------------------- environment ----------------------------- *)
\* a signal (keyboard interrupt, kill) ends the process of invocation p and its
\* child: no signal handler is installed, so nothing deferred runs
Interrupt(p) ==
    /\ pc[p] \notin {"idle", "done", "killed"}
    /\ interrupts < MaxInterrupts
    /\ interrupts' = interrupts + 1
    /\ pc' = [pc EXCEPT ![p] = "killed"]
    /\ alive' = [alive EXCEPT ![p] = FALSE]
    /\ seenPid' = [seenPid EXCEPT ![p] = 0]
    /\ polls' = [polls EXCEPT ![p] = 0]
    /\ UNCHANGED <<cacheOnError, cacheOnAbort>>
    /\ run' = [run EXCEPT ![p].child = IF @ = "running" THEN "exited" ELSE @,
                           ![p].code = IF run[p].child = "running" THEN Signaled ELSE @]
    /\ pidFile' = Closed(pidFile, p)
    /\ outputCache' = Closed(outputCache, p)
    /\ exitFile' = Closed(exitFile, p)
    /\ UNCHANGED <<hashVars, bashVars, reused, command, rc, out, execCount, faults,
                   ioFailed, ageSeen>>

\* the clock advances: the blob gets older (ages past the timeout are all alike)
Tick ==
    /\ outputCache.exists
    /\ outputCache.age <= CacheTimeout
    /\ outputCache' = [outputCache EXCEPT !.age = @ + 1]
    /\ UNCHANGED <<hashVars, bashVars, reused, command, pc, alive, cacheOnError,
                   cacheOnAbort, polls, seenPid, rc, out, run, pidFile, exitFile,
                   execCount, faults, ioFailed, interrupts, ageSeen>>

\* a signal ends the child alone (kill of the command's pid): cmd.Wait returns an
\* ExitError whose ExitCode() is -1; what the child had not yet written is never written
childKilled(p) ==
    /\ run[p].child = "running"
    /\ interrupts < MaxInterrupts
    /\ interrupts' = interrupts + 1
    /\ run' = [run EXCEPT ![p].child = "exited", ![p].code = Signaled]
    /\ UNCHANGED <<hashVars, bashVars, reused, command, pc, alive, cacheOnError,
                   cacheOnAbort, polls, seenPid, rc, out, pidFile, outputCache,
                   exitFile, execCount, faults, ioFailed, ageSeen>>

\* the child writes a chunk to its standard error, which is the invocation's own
\* standard error (cmd.Stderr = os.Stderr): it does not go through the pipe
childWriteErr(p) ==
    /\ run[p].child = "running"
    /\ run[p].errs < OutLen
    /\ run' = [run EXCEPT ![p].errs = @ + 1]
    /\ UNCHANGED <<hashVars, bashVars, reused, command, pc, alive, cacheOnError,
                   cacheOnAbort, polls, seenPid, rc, out, pidFile, outputCache,
                   exitFile, execCount, faults, ioFailed, interrupts, ageSeen>>

\* the pid of an ended invocation is given to an unrelated process, which keeps it
\* (followed only for the pid the lock file holds: no other pid is ever probed)
PidReuse(q) ==
    /\ pc[q] \in {"done", "killed"}
    /\ getPidFromFile(pidFile) = q
    /\ Cardinality(reused) < MaxReused
    /\ q \notin reused
    /\ reused' = reused \cup {q}
    /\ UNCHANGED <<hashVars, bashVars, command, pc, alive, cacheOnError,
                   cacheOnAbort, polls, seenPid, rc, out, run, pidFile, outputCache,
                   exitFile, execCount, faults, ioFailed, interrupts, ageSeen>>

\* what the launched invocations, their children and the environment do
Step ==
    \/ \E p \in Procs : waitStat(p)
    \/ \E p \in Procs : waitRead(p)
    \/ \E p \in Procs : waitProbe(p)
    \/ \E p \in Procs : waitRemove(p)
    \/ \E p \in Procs : createPid(p)
    \/ \E p \in Procs : writePid(p)
    \/ \E p \in Procs : checkValid(p)
    \/ \E p \in Procs : sendTextToStdout(p)
    \/ \E p \in Procs : replayExit(p)
    \/ \E p \in Procs : release(p)
    \/ \E p \in Procs : execCreate(p)
    \/ \E p \in Procs : execStart(p)
    \/ \E p \in Procs : childWrite(p)
    \/ \E p \in Procs, code \in ExitCodes : childExit(p, code)
    \/ \E p \in Procs : copyChunk(p)
    \/ \E p \in Procs : copyEOF(p)
    \/ \E p \in Procs : copyClosed(p)
    \/ \E p \in Procs : cmdWait(p)
    \/ \E p \in Procs : execJoin(p)
    \/ \E p \in Procs : execExitWrite(p)
    \/ \E p \in Procs : postExec(p)
    \/ \E p \in Procs : Interrupt(p)
    \/ Tick

\* invocations launched at any time
Next ==
    \/ \E p \in Procs, onError \in BOOLEAN : Start(p, onError)
    \/ Step

Spec == Init /\ [][Next]_vars

\* invocations launched one after another
NextSeq ==
    \/ \E p \in Procs, onError \in BOOLEAN : StartAfter(p, onError)
    \/ Step

SpecSeq == Init /\ [][NextSeq]_vars

\* invocations with any setting of -a, launched one after another and never with
\* -e, whose command may also write to standard error and be ended by a signal
StartAbort(p, onAbort) ==
    /\ p <= ChildRuns
    /\ \A q \in 1..(p - 1) : pc[q] \in {"done", "killed"}
    /\ LaunchWith(p, FALSE, onAbort)

NextChild ==
    \/ \E p \in Procs, onAbort \in BOOLEAN : StartAbort(p, onAbort)
    \/ \E p \in Procs : childKilled(p)
    \/ \E p \in Procs : childWriteErr(p)
    \/ Step

SpecChild == Init /\ [][NextChild]_vars

\* invocations launched one after another while the pids of ended ones may be
\* taken by other processes
NextLock ==
    \/ \E p \in Procs, onError \in BOOLEAN : StartAfter(p, onError)
    \/ \E q \in Procs : PidReuse(q)
    \/ Step

SpecLock == Init /\ [][NextLock]_vars

\* two command sequences are fingerprinted, as NewCommandCache and CreatePidFile
\* do to name the files of a command
InitHash ==
    /\ InitRun
    /\ argsA \in ArgLists
    /\ argsB \in ArgLists
    /\ hashA = <<>>
    /\ hashB = <<>>
    /\ bashArgs = <<>>
    /\ bashCalled = FALSE
    /\ bashOut = [fatal |-> FALSE, line |-> <<>>]

NewCommandCache ==
    /\ hashA = <<>>
    /\ hashA' = GenerateCommandHash(argsA)
    /\ hashB' = GenerateCommandHash(argsB)
    /\ UNCHANGED <<runVars, bashVars, argsA, argsB>>

NextHash == NewCommandCache

SpecHash == InitHash /\ [][NextHash]_vars

\* an argument list is made into the line handed to bash -c, as ExecuteCommand does
InitBash ==
    /\ InitRun
    /\ argsA = <<>>
    /\ argsB = <<>>
    /\ hashA = <<>>
    /\ hashB = <<>>
    /\ bashArgs \in BashArgLists
    /\ bashCalled = FALSE
    /\ bashOut = [fatal |-> FALSE, line |-> <<>>]

CallConstructBashCommand ==
    /\ ~bashCalled
    /\ bashCalled' = TRUE
    /\ bashOut' = ConstructBashCommand(bashArgs)
    /\ UNCHANGED <<runVars, hashVars, bashArgs>>

NextBash == CallConstructBashCommand

SpecBash == InitBash /\ [][NextBash]_vars

(* ------------------------------- claims -------------------------------- *)

\* C1: at no time do two invocations of the command both hold the guard, that is,
\* both have come back from CreatePidFile with the lock path and not yet removed
\* the lock; so at most one of them is checking, replaying, executing or storing.
C1_AtMostOneGuardHolder ==
    \A p, q \in Procs : p # q => ~(Holding(p) /\ Holding(q))

\* invocation q executed the command, the command exited with 0, ExecuteCommand
\* returned 0 and q printed the whole output of that run and nothing else
ExecutedOk(q) ==
    /\ pc[q] = "done"
    /\ run[q].child = "exited"
    /\ run[q].code = 0
    /\ rc[q] = 0
    /\ out[q] = RunOutput(q)

\* no file-system call has failed and no invocation was killed
Undisturbed == ioFailed = {} /\ interrupts = 0

\* C2: cache round trip.  After an invocation q that executed the command with
\* success (output O, exit code 0), whatever was invoked before q, the next
\* invocation, when it checks the entry within the timeout, ends with exit code 0,
\* has written exactly O and has not started the command.
C2_CacheRoundTrip ==
    \A q, p \in Procs :
        (/\ Undisturbed
         /\ p = q + 1
         /\ ExecutedOk(q)
         /\ pc[p] = "done"
         /\ ageSeen[p] \in 0..CacheTimeout)
        => (rc[p] = 0 /\ out[p] = RunOutput(q) /\ run[p].child = "none")

\* ExecuteCommand of invocation q ran the command and came back with its exit code
Completed(q) ==
    /\ pc[q] \in {"post_exec", "release", "done"}
    /\ run[q].child = "exited"
    /\ rc[q] = run[q].code

\* C3: every completed ExecuteCommand leaves the whole entry as its own result:
\* whenever the blob is valid, the exit record a replay would read is the exit
\* code of the execution that wrote the blob, for 0 as for any other code.
C3_ExitRecordOfSameRun ==
    \A q \in Procs :
        (/\ Undisturbed
         /\ IsValid(outputCache)
         /\ outputCache.by = q
         /\ outputCache.data = RunOutput(q)
         /\ Completed(q))
        => ReplayCode(exitFile) = run[q].code

\* what the run of invocation q left in the blob: the chunks its copy got through
Stored(q) == [k \in 1..run[q].copied |-> Chunk(q, k)]

\* no copy of a command's output was cut short by the close of its pipe
NoCopyCut == \A q \in Procs : \A i \in 1..Len(out[q]) : out[q][i] # ErrLine

\* C4: expiry.  An invocation that finds the blob older than the timeout (by its
\* modification time) executes the command again instead of replaying, and when
\* its ExecuteCommand has come back the entry holds the new result: the blob is
\* the output of the new run and the exit record is its exit code.
C4_ExpiredEntryIsReplaced ==
    \A p \in Procs :
        (Undisturbed /\ NoCopyCut /\ ageSeen[p] > CacheTimeout)
        => /\ pc[p] \notin {"replay_send", "replay_exit"}
           /\ pc[p] \in {"post_exec", "release", "done"} => run[p].child = "exited"
           /\ pc[p] = "post_exec" =>
                /\ outputCache.exists
                /\ outputCache.by = p
                /\ outputCache.data = Stored(p)
                /\ ReplayCode(exitFile) = run[p].code

C6_StaleLockDoesNotBlock ==
    [][\A p \in Procs :
          (ioFailed = {} /\ pc[p] = "wait_remove" /\ pc'[p] = "done") => rc'[p] # 2]_vars

\* invocation p came back from CreatePidFile with the lock path
Acquired(p) == ageSeen[p] # NotChecked \/ pc[p] = "isvalid"

\* C7: guard release on every exit path.  When an invocation that acquired the
\* guard has ended of its own accord (replay, execution, command failure, I/O
\* error, fatal parse failure), the lock file it created is no longer there.
C7_LockGoneAfterExit ==
    \A p \in Procs :
        (pc[p] = "done" /\ Acquired(p)) => getPidFromFile(pidFile) # p

\* C8: guard release on interrupt.  When an invocation is killed by a signal
\* while it executes the command, no lock file naming its pid is left behind.
C8_LockGoneAfterInterrupt ==
    \A p \in Procs :
        (pc[p] = "killed" /\ run[p].child # "none") => getPidFromFile(pidFile) # p

\* the invocation is in the wait loop and has not found the lock stale or unreadable
Polling(p) == pc[p] \in {"wait_stat", "wait_read", "wait_probe"}

\* C9: lock timeout.  While an invocation polls a lock that it finds held by a
\* live process, and when its wait budget runs out, it changes nothing: not the
\* blob, the exit record or the lock file, it starts no command and ends no other
\* process; and when the budget has run out it ends with exit code 2.
C9_LockTimeoutChangesNothing ==
    [][\A p \in Procs :
          (Polling(p) /\ pc'[p] \notin {pc[p], "killed"})
          => /\ UNCHANGED <<pidFile, outputCache, exitFile, execCount, run, out>>
             /\ \A q \in Procs \ {p} : alive'[q] = alive[q] /\ pc'[q] = pc[q]
             /\ pc'[p] = "done" => rc'[p] = 2
             /\ polls[p] >= maxWaitPrevSec => pc'[p] = "done"]_vars

\* C9 happens: an invocation has used up its wait budget and ended with 2 while
\* the holder of the lock is still running with its lock in place
C9_Witness ==
    \E p, q \in Procs :
        /\ pc[p] = "done" /\ polls[p] = maxWaitPrevSec /\ rc[p] = 2
        /\ Holding(q) /\ alive[q]
        /\ getPidFromFile(pidFile) = q

\* C10: waiter rides on the fresh entry.  Of two invocations launched together,
\* when one has executed the command successfully and the other has not found the
\* entry expired, the other either ended with the wait failure (exit code 2) or
\* replayed: it started no command, printed the first's output, returned the
\* first's exit code, and the command ran exactly once in total.
C10_WaiterRidesOnFreshEntry ==
    \A f, s \in Procs :
        (/\ Undisturbed
         /\ NoCopyCut
         /\ f # s
         /\ ExecutedOk(f)
         /\ pc[s] = "done"
         /\ ageSeen[s] <= CacheTimeout)
        => \/ rc[s] = 2
           \/ /\ run[s].child = "none"
              /\ rc[s] = rc[f]
              /\ out[s] = out[f]
              /\ execCount = 1

\* the invocation is inside CreatePidFile
AcquirePcs == {"wait_stat", "wait_read", "wait_probe", "wait_remove", "create",
               "write_pid"}

\* a step of CreatePidFile by invocation p
AcquireStep(p) ==
    \/ waitStat(p) \/ waitRead(p) \/ waitProbe(p) \/ waitRemove(p)
    \/ createPid(p) \/ writePid(p)

\* the most steps invocation p still has to take inside CreatePidFile
StepsLeft(p) ==
    CASE pc[p] = "wait_stat"  -> 3 * (maxWaitPrevSec - polls[p]) + 3
      [] pc[p] = "wait_read"  -> 3 * (maxWaitPrevSec - polls[p]) + 2
      [] pc[p] = "wait_probe" -> 3 * (maxWaitPrevSec - polls[p]) + 1
      [] pc[p] = "create"     -> 2
      [] pc[p] = "wait_remove" -> 1
      [] pc[p] = "write_pid"  -> 1
      [] OTHER                -> 0

\* CreatePidFile always has a next step, never polls more than maxWaitPrevSec
\* times, and every step of it brings its return nearer
AcquireReturns ==
    /\ [](\A p \in Procs :
            /\ polls[p] <= maxWaitPrevSec
            /\ pc[p] \in AcquirePcs => ENABLED AcquireStep(p))
    /\ [][\A p \in Procs :
            (pc[p] \in AcquirePcs /\ pc'[p] # pc[p])
            => /\ StepsLeft(p)' < StepsLeft(p)
               /\ StepsLeft(p)' >= 0
               /\ pc'[p] \in AcquirePcs \cup {"isvalid", "done", "killed"}]_vars

\* of two invocations run to their end one after the other, without a failing
\* file-system call, at least one acquired the guard
OneOfTwoAcquires ==
    \A p \in Procs \ {NumProcs} :
        (pc[p] = "done" /\ pc[p + 1] = "done" /\ ioFailed = {})
        => (Acquired(p) \/ Acquired(p + 1))

\* C11 as stated: guard acquisition always returns after at most maxWaitPrevSec
\* polls, and whatever lock a dead process left, of two later invocations run
\* one after the other at least one acquires the guard.
C11_AsStated == OneOfTwoAcquires

\* C11 amended: guard acquisition always returns after at most maxWaitPrevSec
\* polls whatever the other processes do; and as long as no running process has
\* taken the pid that a dead process left in the lock, of two later invocations
\* run one after the other at least one acquires the guard.
C11_NoPermanentLockup ==
    /\ AcquireReturns
    /\ [](reused = {} => OneOfTwoAcquires)

\* C11 happens: an invocation died holding the lock, the next one found the lock
\* stale and failed, and the one after that acquired the guard
C11_Witness ==
    \E p \in Procs \ {NumProcs - 1, NumProcs} :
        /\ reused = {}
        /\ ioFailed = {}
        /\ pc[p] = "killed"
        /\ pc[p + 1] = "done" /\ rc[p + 1] = 2 /\ ~Acquired(p + 1)
        /\ Acquired(p + 2) /\ pc[p + 2] = "done"

\* C12: fingerprint sensitivity.  Two command sequences that differ (in an
\* argument, in the order or the number of arguments, or in white space inside
\* an argument) have different fingerprints, the digest being injective.
C12_FingerprintSensitive ==
    (hashA # <<>> /\ argsA # argsB) => hashA # hashB

\* the run of the command by invocation q was ended by a signal, sent to the
\* command alone or to the invocation and its command together
Aborted(q) ==
    /\ pc[q] \in {"done", "killed"}
    /\ run[q].child = "exited"
    /\ run[q].code = Signaled

\* C13: cache on abort.  When the run of the command was ended by a signal and
\* the invocation was given no cache-on-error, then once the invocation is over
\* (and before the next one starts) the entry of that run is kept if the
\* invocation was given cache-on-abort, and is gone if it was not.
C13_CacheOnAbort ==
    \A q \in Procs :
        (/\ Aborted(q)
         /\ ~cacheOnError[q]
         /\ ioFailed = {}
         /\ \A p \in Procs : p > q => pc[p] = "idle")
        => (cacheOnAbort[q] <=> (outputCache.exists /\ outputCache.by = q))

\* C14: the cached output is the merged stream.  When ExecuteCommand has come
\* back from a run that nothing disturbed, every chunk the command wrote to its
\* standard error is in the output blob.
C14_StderrIsCached ==
    \A p \in Procs :
        (/\ Undisturbed
         /\ NoCopyCut
         /\ pc[p] = "post_exec"
         /\ run[p].child = "exited"
         /\ outputCache.by = p)
        => \A k \in 1..run[p].errs :
              \E i \in 1..Len(outputCache.data) :
                  outputCache.data[i] = StderrChunk(p, k)

\* C15: output completeness.  When ExecuteCommand has come back from a run that
\* no failing file-system call and no signal disturbed, however the copying
\* goroutine and cmd.Wait were interleaved, the blob and the invocation's
\* standard output hold the same chunks, and these are all the chunks the
\* command wrote, in order.
C15_OutputComplete ==
    \A p \in Procs :
        (/\ Undisturbed
         /\ pc[p] = "post_exec"
         /\ run[p].child = "exited"
         /\ outputCache.by = p)
        => /\ outputCache.data = out[p]
           /\ out[p] = RunOutput(p)

\* the execution that created the blob has completed: its command has exited on
\* its own and its copy has ended
WriterCompleted ==
    /\ outputCache.by \in Procs
    /\ run[outputCache.by].child = "exited"
    /\ run[outputCache.by].code # Signaled
    /\ run[outputCache.by].copyDone

\* C16: no reader sees a half-written blob as valid.  With no failing
\* file-system call, an invocation that found the entry valid and is about to
\* replay it reads a blob whose writing execution has completed.
C16_NoHalfWrittenReplay ==
    \A p \in Procs :
        (ioFailed = {} /\ pc[p] = "replay_send" /\ outputCache.exists)
        => WriterCompleted

\* the exit record on disk is the one that the execution of invocation p made
ExitRecordOf(p) ==
    /\ exitFile.exists
    /\ pc[p] \in {"exec_exit_write", "post_exec", "release"}
    /\ run[p].child = "exited"
    /\ run[p].code # 0

\* C17: data before exit code.  With no failing file-system call and no signal,
\* whenever the exit record of an execution is on disk, the copy of that
\* execution has ended and its blob is complete: it holds all the command wrote.
C17_DataBeforeExitCode ==
    \A p \in Procs :
        (Undisturbed /\ ExitRecordOf(p))
        => /\ run[p].copyDone
           /\ outputCache.by = p => outputCache.data = RunOutput(p)

\* C18: I/O failure outcome.  An invocation in which the creation or the writing
\* of the lock file, the blob or the exit record failed ends with exit code 1
\* and leaves no entry that IsValid takes for valid, whatever cacheOnError is.
C18_IOFailureOutcome ==
    [][\A p \in Procs :
          (pc[p] # "done" /\ pc'[p] = "done" /\ p \in ioFailed' /\ interrupts' = 0)
          => /\ rc'[p] = 1
             /\ ~IsValid(outputCache)']_vars

\* C19: IsValid is a function of the blob's age alone.  Whatever the exit record,
\* the lock file and the content of the blob are, the validity check sends the
\* invocation to the replay exactly when the blob exists and its age is at most
\* the timeout (an age equal to the timeout is valid), and to the execution
\* otherwise.
C19_ValidityIsAge ==
    [][\A p \in Procs :
          (pc[p] = "isvalid" /\ pc'[p] \notin {"isvalid", "killed"})
          => IF outputCache.exists /\ outputCache.age <= CacheTimeout
             THEN pc'[p] = "replay_send"
             ELSE pc'[p] = "exec_create"]_vars

\* C19 happens: a blob exactly as old as the timeout, empty and without an exit
\* record, has been found valid
C19_Witness ==
    \E p \in Procs :
        /\ pc[p] = "replay_send"
        /\ ageSeen[p] = CacheTimeout
        /\ outputCache.exists /\ outputCache.data = <<>>
        /\ ~exitFile.exists

\* the exit record is missing or does not read as an integer
ExitRecordUnreadable == ~exitFile.exists \/ Atoi(exitFile.data).err

\* C20: replay with an unreadable exit record.  An invocation that found the
\* entry valid and has streamed the blob, and then finds the exit record missing
\* or not an integer, takes 0 for its exit code: it has written the blob to its
\* standard output, starts no command, and goes on to release the guard.
C20_UnreadableExitRecordIsZero ==
    [][\A p \in Procs :
          (pc[p] = "replay_exit" /\ pc'[p] \notin {"replay_exit", "killed"}
           /\ ExitRecordUnreadable)
          => /\ pc'[p] = "release"
             /\ rc'[p] = 0
             /\ out[p] = outputCache.data
             /\ run'[p].child = "none"
             /\ execCount' = execCount]_vars

\* C20 happens: an entry whose exit record is there but empty has been replayed
\* with exit code 0
C20_Witness ==
    \E p \in Procs :
        /\ pc[p] = "done"
        /\ ageSeen[p] \in 0..CacheTimeout
        /\ run[p].child = "none"
        /\ exitFile.exists /\ exitFile.data = <<>>
        /\ Len(out[p]) > 0
        /\ rc[p] = 0

RECURSIVE EscapeChars(_)
\* s with every backslash doubled and a backslash put before every double quote
EscapeChars(s) ==
    IF Len(s) = 0 THEN <<>>
    ELSE (IF s[1] = Backslash THEN <<Backslash, Backslash>>
          ELSE IF s[1] = DQuote THEN <<Backslash, DQuote>>
          ELSE <<s[1]>>) \o EscapeChars(Tail(s))

\* C21: ConstructBashCommand escaping.  For an argument list whose quotes are
\* balanced (the parse does not fail), the result is the arguments joined by
\* single spaces, with every backslash doubled and every double quote preceded
\* by one added backslash.
C21_Escaping ==
    (bashCalled /\ ~bashOut.fatal)
    => bashOut.line = EscapeChars(Join(bashArgs, <<Space>>))

\* the lock file is invocation q's: q created it and has not yet filled it, or
\* it holds q's pid, and q has not ended
LockOf(q) ==
    /\ pidFile.exists
    /\ q \in pidFile.fds \/ getPidFromFile(pidFile) = q
    /\ pc[q] \notin {"idle", "done", "killed"}

\* C22: lock ownership on removal.  Neither the cleanup of the wait loop (also
\* when it reads a lock file that its creator has created but not yet filled)
\* nor the deferred release removes the lock file of another invocation that is
\* still alive.
C22_RemovesOnlyOwnOrDeadLock ==
    [][\A p \in Procs :
          (/\ pc[p] \in {"wait_remove", "release"}
           /\ pc'[p] # pc[p]
           /\ pidFile.exists
           /\ ~pidFile'.exists)
          => \A q \in Procs \ {p} : ~(alive[q] /\ LockOf(q))]_vars

====
